---- MODULE Spec2Model ----
(***************************************************************************)
(* Duplicate detection of the cocktail recipe service                      *)
(* (backend/app/services/duplicate_detector.py).                           *)
(*                                                                         *)
(* Representation                                                          *)
(*   - an Optional value is <<>> (None) or <<v>>;                          *)
(*   - a Python str is the sequence of its code points;                    *)
(*   - a float amount is a whole number of tenths (20 is 2.0);             *)
(*   - a perceptual hash is its 16 hex digits, each a number 0..15;        *)
(*   - a confidence is a whole number of 1/ConfUnit, so that 1 - d/64 and  *)
(*     0.95 are both exact; no d/64 lies between 0.95 and the float        *)
(*     nearest to it, so every comparison is the one the floats give;      *)
(*   - SHA-256 and MD5 are injective constructors (no collisions);         *)
(*   - a query without ORDER BY returns its rows in any order, so a lookup *)
(*     is the SET of the results it can return.                            *)
(***************************************************************************)
EXTENDS Integers, Sequences, FiniteSets, TLC

VARIABLES store, call, result, fp_input, fp_first, fp_last, fp_edit,
          jobs, upload_dir, request, response, recipe_ingredients, extractions,
          extracted, cache, recency, cache_op, threads

\* the fingerprinted input, its first and latest fingerprint, the edit made
fpVars == <<fp_input, fp_first, fp_last, fp_edit>>

\* the extraction_jobs table, the files saved, the latest request and its
\* answer, the recipe_ingredients table, the extraction requests being served,
\* and which job each extracted recipe was created for
uploadVars == <<jobs, upload_dir, request, response, recipe_ingredients, extractions,
                extracted>>

\* the lru_cache of _cached_perceptual_hash, least recently used entry first;
\* the images asked for since the cache was last empty, in the order of their
\* latest call; the latest call; the calls running at once, each in its thread
cacheVars == <<cache, recency, cache_op, threads>>

vars == <<store, call, result, fpVars, uploadVars, cacheVars>>

----------------------------------------------------------------------------
(* Bounds of the model *)

MaxRecipes == 2

MaxIngredients == 3

MaxMatchesArg == 2

MaxBatch == 3

----------------------------------------------------------------------------
(* Optional values and Python truthiness *)

None == <<>>

Some(x) == <<x>>

\* `if s:` for an Optional[str] or Optional[list]: None and the empty one are falsy
TruthySeq(o) == o # None /\ Len(o[1]) > 0

\* `x or ''` for an Optional[float]: None and 0.0 are falsy
TruthyNum(o) == o # None /\ o[1] # 0

Min(a, b) == IF a <= b THEN a ELSE b

----------------------------------------------------------------------------
(* Python str operations *)

\* str.lower() on ASCII text
Lower(s) == [i \in 1..Len(s) |-> IF s[i] \in 65..90 THEN s[i] + 32 ELSE s[i]]

IsSpace(c) == c \in {9, 10, 11, 12, 13, 32}

RECURSIVE LStrip(_)
LStrip(s) == IF s # <<>> /\ IsSpace(Head(s)) THEN LStrip(Tail(s)) ELSE s

RECURSIVE RStrip(_)
RStrip(s) ==
    IF s # <<>> /\ IsSpace(s[Len(s)]) THEN RStrip(SubSeq(s, 1, Len(s) - 1)) ELSE s

\* str.strip()
Strip(s) == RStrip(LStrip(s))

\* s < t for Python strings: lexicographic by code point
RECURSIVE StrLess(_, _)
StrLess(s, t) ==
    IF t = <<>> THEN FALSE
    ELSE IF s = <<>> THEN TRUE
    ELSE IF Head(s) # Head(t) THEN Head(s) < Head(t)
    ELSE StrLess(Tail(s), Tail(t))

RECURSIVE Digits(_)
Digits(n) == IF n < 10 THEN <<48 + n>> ELSE Digits(n \div 10) \o <<48 + (n % 10)>>

\* f"{x}" of a non-negative float with one decimal: 20 tenths is "2.0"
FormatFloat(t) == Digits(t \div 10) \o <<46>> \o <<48 + (t % 10)>>

RECURSIVE Join(_, _)
Join(sep, parts) ==
    IF parts = <<>> THEN <<>>
    ELSE IF Len(parts) = 1 THEN parts[1]
    ELSE parts[1] \o sep \o Join(sep, Tail(parts))

RECURSIVE InsertSorted(_, _)
InsertSorted(x, sorted) ==
    IF sorted = <<>> THEN <<x>>
    ELSE IF StrLess(x, Head(sorted)) THEN <<x>> \o sorted
    ELSE <<Head(sorted)>> \o InsertSorted(x, Tail(sorted))

RECURSIVE SortedFrom(_, _)
SortedFrom(items, acc) ==
    IF items = <<>> THEN acc ELSE SortedFrom(Tail(items), InsertSorted(Head(items), acc))

\* without the sort: the components in the order the caller listed them
SortedUnsorted(items) == items

\* sorted(items) for a list of strings
Sorted(items) == SortedFrom(items, <<>>)

\* hashlib.md5(data.encode()).hexdigest(), collisions aside
Md5HexDigest(data) == [md5 |-> data]

----------------------------------------------------------------------------
(* compute_recipe_fingerprint: an ingredient is <<name, amount, unit>> with *)
(* name a str, amount an Optional float, unit an Optional str                *)

IngredientComponent(ing) ==
    Strip(Lower(ing[1])) \o <<58>>
        \o (IF TruthyNum(ing[2]) THEN FormatFloat(ing[2][1]) ELSE <<>>) \o <<58>>
        \o Lower(IF TruthySeq(ing[3]) THEN ing[3][1] ELSE <<>>)

\* without `if ing[0]`: a component for every ingredient, named or not
IngredientComponentsKeepAll(ingredients) ==
    [i \in 1..Len(ingredients) |-> IngredientComponent(ingredients[i])]

RECURSIVE IngredientComponents(_)
IngredientComponents(ingredients) ==
    IF ingredients = <<>> THEN <<>>
    ELSE (IF Len(Head(ingredients)[1]) > 0
             THEN <<IngredientComponent(Head(ingredients))>>
             ELSE <<>>)
         \o IngredientComponents(Tail(ingredients))

compute_recipe_fingerprint(name, ingredients) ==
    LET normalized_name == Strip(Lower(name))
        sorted_ingredients == Sorted(IngredientComponents(ingredients))
        fingerprint_data == normalized_name \o <<124>> \o Join(<<124>>, sorted_ingredients)
    IN  Md5HexDigest(fingerprint_data)

----------------------------------------------------------------------------
(* Strings of the examples: "Mai Tai", "Rum", "Lime", "Mint", "oz", "ml" *)

StrMaiTai == <<77, 97, 105, 32, 84, 97, 105>>

StrMojito == <<77, 111, 106, 105, 116, 111>>

StrRum == <<82, 117, 109>>

StrLime == <<76, 105, 109, 101>>

StrMint == <<77, 105, 110, 116>>

StrOz == <<111, 122>>

StrMl == <<109, 108>>

IngRum == <<StrRum, Some(20), Some(StrOz)>>

IngLime == <<StrLime, Some(10), Some(StrOz)>>

IngMint == <<StrMint, None, None>>

IngRumMl == <<StrRum, Some(20), Some(StrMl)>>

IngNameless == <<<<>>, Some(5), Some(StrOz)>>

----------------------------------------------------------------------------
(* Image hashes.  An image is named by its bytes: img_a, img_a2 (img_a     *)
(* re-encoded), img_b and img_c are four different byte strings.           *)

Images == {"img_a", "img_a2", "img_b", "img_c"}

\* hashlib.sha256(image_data).hexdigest(), collisions aside
Sha256HexDigest(image_data) == [sha256 |-> image_data]

compute_content_hash(image_data) == Sha256HexDigest(image_data)

_HASH_CACHE_SIZE == 128

MaxExtraImages == 2

\* frame_1, frame_2, ...: as many different images as fill the cache, and
\* MaxExtraImages more
Frame(n) == "frame_" \o ToString(n)

FrameNumbers == 1..(_HASH_CACHE_SIZE + MaxExtraImages)

FrameNumber(image_data) == CHOOSE n \in FrameNumbers : Frame(n) = image_data

HexDigits == 1..16

\* str(imagehash.phash(img)): 16 hex digits.  img_a2 differs from img_a in 4
\* bits, img_b in 11 bits, img_c in all 64; frame_n has n in its last digits.
PHashOfImage(image_data) ==
    CASE image_data = "img_a"  -> [i \in HexDigits |-> 0]
      [] image_data = "img_a2" -> [i \in HexDigits |-> IF i = 16 THEN 15 ELSE 0]
      [] image_data = "img_b"  ->
            [i \in HexDigits |-> IF i >= 15 THEN 15 ELSE IF i = 14 THEN 7 ELSE 0]
      [] image_data = "img_c"  -> [i \in HexDigits |-> 15]
      [] OTHER ->
            LET n == FrameNumber(image_data) IN
            [i \in HexDigits |-> IF i = 16 THEN n % 16
                                  ELSE IF i = 15 THEN (n \div 16) % 16 ELSE 0]

\* Image.open(io.BytesIO(image_data)) succeeds: the bytes are an image
CanOpen(image_data) == image_data \in Images

ImageHashes_from_image_data(image_data) ==
    [content_hash |-> Sha256HexDigest(image_data),
     perceptual_hash |-> PHashOfImage(image_data)]

HashBits == 64

\* imagehash.hex_to_hash: the bits of the hex digits, most significant first
hex_to_hash(hexstr) ==
    [j \in 1..(4 * Len(hexstr)) |->
        (hexstr[((j - 1) \div 4) + 1] \div (2 ^ (3 - ((j - 1) % 4)))) % 2 = 1]

\* ImageHash.__sub__: the number of bits in which two hashes differ
HammingDistance(h1, h2) == Cardinality({j \in 1..Len(h1) : h1[j] # h2[j]})

StoredPHashes == {PHashOfImage(b) : b \in Images}

\* the distances between the hashes of the model's images, computed once
DistanceTable ==
    {<<p, q, HammingDistance(hex_to_hash(p), hex_to_hash(q))>> :
        p \in StoredPHashes, q \in StoredPHashes}

\* new_hash - existing
Distance(new_hex, existing_hex) ==
    (CHOOSE t \in DistanceTable : t[1] = new_hex /\ t[2] = existing_hex)[3]

----------------------------------------------------------------------------
(* Confidences *)

PHASH_SIMILARITY_THRESHOLD == 10

DEFAULT_BATCH_SIZE == 100

DEFAULT_MAX_MATCHES == 10

\* 1/ConfUnit is the unit of confidence: a multiple of 64 and of 20
ConfUnit == HashBits * 20

ExactConfidence == ConfUnit

\* a same_recipe match rated 0.90
SameRecipeConfidenceNinety == (90 * ConfUnit) \div 100

SameRecipeConfidence == (95 * ConfUnit) \div 100

\* confidence of a distance counted over half the bits of the hash
SimilarConfidenceHalfWidth(distance) == ConfUnit - (distance * ConfUnit) \div 32

\* 1.0 - (distance / 64.0)
SimilarConfidence(distance) == ConfUnit - (distance * ConfUnit) \div HashBits

DuplicateMatch(recipe, match_type, confidence, distance) ==
    [recipe_id |-> recipe.id, recipe_name |-> recipe.name, match_type |-> match_type,
     confidence |-> confidence, details |-> distance]

----------------------------------------------------------------------------
(* The recipe table *)

RecipeIds == <<"r1", "r2", "r3", "r4", "r5", "r6">>

RecMaiTai == [name |-> StrMaiTai, ingredients |-> <<IngRum, IngLime>>]

RecMojito == [name |-> StrMojito, ingredients |-> <<>>]

\* what a new row holds: the recipe created from an extracted image has all
\* three signatures; a hand-entered or not yet backfilled one lacks some
RecipeKinds ==
    {[image |-> "img_a",  recipe |-> RecMaiTai, fields |-> {"content", "perceptual", "fingerprint"}],
     [image |-> "img_a2", recipe |-> RecMaiTai, fields |-> {"content", "perceptual", "fingerprint"}],
     [image |-> "img_b",  recipe |-> RecMojito, fields |-> {"content", "perceptual", "fingerprint"}],
     [image |-> "img_b",  recipe |-> RecMojito, fields |-> {}],
     [image |-> "img_a",  recipe |-> RecMojito, fields |-> {"perceptual"}],
     [image |-> "img_a",  recipe |-> RecMojito, fields |-> {"content"}],
     [image |-> "img_b",  recipe |-> RecMaiTai, fields |-> {"fingerprint"}],
     [image |-> "img_c",  recipe |-> RecMojito, fields |-> {"perceptual"}]}

NewRecipe(id, kind) ==
    [id |-> id,
     name |-> kind.recipe.name,
     image_content_hash |->
        IF "content" \in kind.fields
            THEN Some(compute_content_hash(kind.image)) ELSE None,
     image_perceptual_hash |->
        IF "perceptual" \in kind.fields THEN Some(PHashOfImage(kind.image)) ELSE None,
     recipe_fingerprint |->
        IF "fingerprint" \in kind.fields
            THEN Some(compute_recipe_fingerprint(kind.recipe.name, kind.recipe.ingredients))
            ELSE None]

Rows(db) == {db[i] : i \in DOMAIN db}

\* the orders in which a query without ORDER BY can return the rows S
RECURSIVE Orderings(_)
Orderings(S) ==
    IF S = {} THEN {<<>>}
    ELSE UNION {{<<r>> \o rest : rest \in Orderings(S \ {r})} : r \in S}

\* query.first(): None, or the first row of one of those orders
QueryFirst(S) == IF S = {} THEN {None} ELSE {Some(r) : r \in S}

\* a query that forgets the filter on the id
NotExcludedNoFilter(recipe, exclude_recipe_id) == TRUE

\* `if exclude_recipe_id: query = query.filter(Recipe.id != exclude_recipe_id)`
NotExcluded(recipe, exclude_recipe_id) ==
    (exclude_recipe_id # None /\ exclude_recipe_id[1] # "")
        => recipe.id # exclude_recipe_id[1]

----------------------------------------------------------------------------
(* The three lookups.  Each is the set of the values it can return. *)

\* a comparison that takes a NULL column for equal
ExactQueryNullEqual(db, content_hash, exclude_recipe_id) ==
    {r \in Rows(db) : /\ r.image_content_hash \in {None, Some(content_hash)}
                      /\ NotExcluded(r, exclude_recipe_id)}

\* db.query(Recipe).filter(Recipe.image_content_hash == content_hash)
ExactQuery(db, content_hash, exclude_recipe_id) ==
    {r \in Rows(db) : /\ r.image_content_hash = Some(content_hash)
                      /\ NotExcluded(r, exclude_recipe_id)}

check_exact_duplicate(db, content_hash, exclude_recipe_id) ==
    {IF match # None
        THEN Some(DuplicateMatch(match[1], "exact_image", ExactConfidence, None))
        ELSE None :
     match \in QueryFirst(ExactQuery(db, content_hash, exclude_recipe_id))}

PerceptualQuery(db, exclude_recipe_id) ==
    {r \in Rows(db) : /\ r.image_perceptual_hash # None
                      /\ NotExcluded(r, exclude_recipe_id)}

\* query.yield_per(batch_size): the rows, fetched batch_size at a time
RECURSIVE YieldPer(_, _)
YieldPer(rows, batch_size) ==
    IF rows = <<>> THEN <<>>
    ELSE LET n == Min(batch_size, Len(rows)) IN
         SubSeq(rows, 1, n) \o YieldPer(SubSeq(rows, n + 1, Len(rows)), batch_size)

_stream_perceptual_hashes(db, exclude_recipe_id, batch_size) ==
    {YieldPer(rows, batch_size) : rows \in Orderings(PerceptualQuery(db, exclude_recipe_id))}

RECURSIVE InsertByConfidence(_, _)
InsertByConfidence(m, sorted) ==
    IF sorted = <<>> THEN <<m>>
    ELSE IF m.confidence > Head(sorted).confidence THEN <<m>> \o sorted
    ELSE <<Head(sorted)>> \o InsertByConfidence(m, Tail(sorted))

RECURSIVE SortByConfidenceFrom(_, _)
SortByConfidenceFrom(matches, acc) ==
    IF matches = <<>> THEN acc
    ELSE SortByConfidenceFrom(Tail(matches), InsertByConfidence(Head(matches), acc))

\* the matches left in the order they were found
SortByConfidenceOmitted(matches) == matches

\* sorted(matches, key=confidence, reverse=True): stable, highest first
SortByConfidence(matches) == SortByConfidenceFrom(matches, <<>>)

\* matches[:n] for n >= 0
Take(matches, n) == SubSeq(matches, 1, Min(n, Len(matches)))

RECURSIVE SimilarMatches(_, _, _)
SimilarMatches(rows, perceptual_hash, threshold) ==
    IF rows = <<>> THEN <<>>
    ELSE LET distance == Distance(perceptual_hash, Head(rows).image_perceptual_hash[1]) IN
         (IF distance <= threshold
             THEN <<DuplicateMatch(Head(rows), "similar_image",
                                   SimilarConfidence(distance), Some(distance))>>
             ELSE <<>>)
         \o SimilarMatches(Tail(rows), perceptual_hash, threshold)

\* the limit applied before the sort
SortAndLimitLimitFirst(matches, max_matches) ==
    SortByConfidence(Take(matches, max_matches))

\* matches.sort(key=confidence, reverse=True); return matches[:max_matches]
SortAndLimit(matches, max_matches) == Take(SortByConfidence(matches), max_matches)

check_similar_images_streamed(db, perceptual_hash, threshold, exclude_recipe_id, max_matches, batch_size) ==
    {SortAndLimit(SimilarMatches(rows, perceptual_hash, threshold), max_matches) :
     rows \in _stream_perceptual_hashes(db, exclude_recipe_id, batch_size)}

check_similar_images(db, perceptual_hash, threshold, exclude_recipe_id, max_matches) ==
    check_similar_images_streamed(db, perceptual_hash, threshold, exclude_recipe_id,
                                  max_matches, DEFAULT_BATCH_SIZE)

\* what the loop of check_similar_images holds when it has read k rows of the
\* stream: the rows of the batch the k-th row came in, and the list `matches`
\* with every row within the threshold read so far appended
HeldAfter(rows, k, perceptual_hash, threshold, batch_size) ==
    LET batch_start == batch_size * ((k - 1) \div batch_size) IN
    [signatures |-> Min(batch_size, Len(rows) - batch_start),
     matches |-> Len(SimilarMatches(SubSeq(rows, 1, k), perceptual_hash, threshold))]

\* for each order of the stream, what the loop holds row after row
SimilarImagesHeld(db, perceptual_hash, threshold, exclude_recipe_id, batch_size) ==
    {{HeldAfter(rows, k, perceptual_hash, threshold, batch_size) : k \in DOMAIN rows} :
     rows \in _stream_perceptual_hashes(db, exclude_recipe_id, batch_size)}

FingerprintQuery(db, fingerprint, exclude_recipe_id) ==
    {r \in Rows(db) : /\ r.recipe_fingerprint = Some(fingerprint)
                      /\ NotExcluded(r, exclude_recipe_id)}

check_recipe_fingerprint(db, fingerprint, exclude_recipe_id) ==
    {IF match # None
        THEN Some(DuplicateMatch(match[1], "same_recipe", SameRecipeConfidence, None))
        ELSE None :
     match \in QueryFirst(FingerprintQuery(db, fingerprint, exclude_recipe_id))}

----------------------------------------------------------------------------
(* check_for_duplicates *)

OptionalToList(o) == IF o = None THEN <<>> ELSE <<o[1]>>

\* the same_recipe lookup made whenever both arguments were passed
HasExtractedDataIfNotNone(recipe_name, ingredients) ==
    recipe_name # None /\ ingredients # None

\* `if recipe_name and ingredients:`
HasExtractedData(recipe_name, ingredients) ==
    TruthySeq(recipe_name) /\ TruthySeq(ingredients)

\* the later lookups skipped once the exact lookup has matched
GatherMatchesShortCircuit(exact_match, similar_matches, recipe_match) ==
    IF exact_match # None THEN <<exact_match[1]>>
    ELSE similar_matches \o OptionalToList(recipe_match)

\* matches after `matches.append(exact_match)`, `matches.extend(similar_matches)`
\* and `matches.append(recipe_match)`
GatherMatches(exact_match, similar_matches, recipe_match) ==
    OptionalToList(exact_match) \o similar_matches \o OptionalToList(recipe_match)

\* the values `matches` can have when the three lookups are done
LookupMatches(db, hashes, recipe_name, ingredients, exclude_recipe_id) ==
    {GatherMatches(exact_match, similar_matches, recipe_match) :
        exact_match \in check_exact_duplicate(db, hashes.content_hash, exclude_recipe_id),
        similar_matches \in
            check_similar_images(db, hashes.perceptual_hash, PHASH_SIMILARITY_THRESHOLD,
                                 exclude_recipe_id, DEFAULT_MAX_MATCHES),
        recipe_match \in
            IF HasExtractedData(recipe_name, ingredients)
                THEN check_recipe_fingerprint(
                        db, compute_recipe_fingerprint(recipe_name[1], ingredients[1]),
                        exclude_recipe_id)
                ELSE {None}}

SeenAt(seen_recipes, recipe_id) ==
    IF \E i \in DOMAIN seen_recipes : seen_recipes[i].recipe_id = recipe_id
        THEN CHOOSE i \in DOMAIN seen_recipes : seen_recipes[i].recipe_id = recipe_id
        ELSE 0

\* the first match seen for a recipe kept, whatever comes later
ReplacesSeenNever(match, seen) == FALSE

\* a later match of the same confidence taking the place of the first
ReplacesSeenOrEqual(match, seen) == match.confidence >= seen.confidence

\* `match.confidence > seen_recipes[match.recipe_id].confidence`
ReplacesSeen(match, seen) == match.confidence > seen.confidence

\* seen_recipes, a dict in insertion order: a replaced entry keeps its place
RECURSIVE DeduplicateFrom(_, _)
DeduplicateFrom(matches, seen_recipes) ==
    IF matches = <<>> THEN seen_recipes
    ELSE LET match == Head(matches)
             at == SeenAt(seen_recipes, match.recipe_id)
         IN  DeduplicateFrom(
                Tail(matches),
                IF at = 0 THEN Append(seen_recipes, match)
                ELSE IF ReplacesSeen(match, seen_recipes[at])
                    THEN [seen_recipes EXCEPT ![at] = match]
                ELSE seen_recipes)

\* a result reported as a duplicate only from the second match on
IsDuplicateOffByOne(unique_matches) == Len(unique_matches) > 1

\* `is_duplicate=len(unique_matches) > 0`
IsDuplicate(unique_matches) == Len(unique_matches) > 0

DuplicateCheckResult(matches) ==
    LET unique_matches == SortByConfidence(DeduplicateFrom(matches, <<>>)) IN
    [is_duplicate |-> IsDuplicate(unique_matches), matches |-> unique_matches]

\* among the matches of the highest confidence, the last one
best_matchLastOfTies(self) ==
    IF self.matches = <<>> THEN None
    ELSE LET matches == self.matches
             i == CHOOSE i \in DOMAIN matches :
                    /\ \A j \in DOMAIN matches : matches[j].confidence <= matches[i].confidence
                    /\ \A j \in DOMAIN matches :
                          matches[j].confidence = matches[i].confidence => j <= i
         IN  Some(matches[i])

\* DuplicateCheckResult.best_match: `if not self.matches: return None`, else
\* max(self.matches, key=confidence), which is the first of the items whose
\* key is the highest
best_match(self) ==
    IF self.matches = <<>> THEN None
    ELSE LET matches == self.matches
             i == CHOOSE i \in DOMAIN matches :
                    /\ \A j \in DOMAIN matches : matches[j].confidence <= matches[i].confidence
                    /\ \A j \in DOMAIN matches :
                          matches[j].confidence = matches[i].confidence => i <= j
         IN  Some(matches[i])

\* what a function leaves when it raises instead of returning
NoResult == [matches |-> <<>>]

\* a lookup that deletes the first row of the table
AfterQueriesDeleting(db) == IF db = <<>> THEN db ELSE Tail(db)

\* the recipes table after the db.query(...) calls of a lookup: the functions
\* call neither db.add, db.delete, db.flush nor db.commit
AfterQueries(db) == db

\* the runs check_for_duplicates can make: the matches the lookups found and
\* the result returned for them, or the exception of ImageHashes.from_image_data
\* when the bytes are no image and no hashes were passed
\* hashes passed in of which only the perceptual hash is used
SelectHashesPerceptualOnly(image_data, precomputed_hashes) ==
    IF precomputed_hashes # None
    THEN [content_hash |-> Sha256HexDigest(""),
          perceptual_hash |-> precomputed_hashes[1].perceptual_hash]
    ELSE ImageHashes_from_image_data(image_data)

\* `if precomputed_hashes: hashes = precomputed_hashes` /
\* `else: hashes = ImageHashes.from_image_data(image_data)`, for bytes that
\* can be decoded when no hashes are passed
SelectHashes(image_data, precomputed_hashes) ==
    IF precomputed_hashes # None THEN precomputed_hashes[1]
    ELSE ImageHashes_from_image_data(image_data)

\* the triple (content_hash, perceptual_hash, recipe_fingerprint) of a recipe
compute_hashes_for_recipe(image_data, recipe_name, ingredients, precomputed_image_hashes) ==
    LET image_hashes == SelectHashes(image_data, precomputed_image_hashes) IN
    <<image_hashes.content_hash, image_hashes.perceptual_hash,
      compute_recipe_fingerprint(recipe_name, ingredients)>>

\* the error caught and an empty result returned in its place
DecodeErrorSwallowed(image_data) ==
    [found |-> <<>>, returned |-> DuplicateCheckResult(<<>>), raised |-> FALSE]

\* Image.open(io.BytesIO(image_data)) raises in ImageHashes.from_image_data:
\* nothing catches it, so check_for_duplicates ends there, before any lookup
DecodeError(image_data) ==
    [found |-> <<>>, returned |-> NoResult, raised |-> TRUE]

check_for_duplicates(db, image_data, recipe_name, ingredients, exclude_recipe_id, precomputed_hashes) ==
    IF precomputed_hashes = None /\ ~CanOpen(image_data)
    THEN {DecodeError(image_data)}
    ELSE LET hashes == SelectHashes(image_data, precomputed_hashes)
         IN  {[found |-> matches, returned |-> DuplicateCheckResult(matches), raised |-> FALSE] :
              matches \in LookupMatches(db, hashes, recipe_name, ingredients, exclude_recipe_id)}

----------------------------------------------------------------------------
(* The callers *)

NoCall == [kind |-> "none"]

QueryImages == {"img_a", "img_a2"}

\* bytes that are no image
NotImages == {"not_an_image"}

\* the caller passes no hashes, or those it computed from the same bytes
PrecomputedChoices(image_data) ==
    {None} \cup (IF CanOpen(image_data) THEN {Some(ImageHashes_from_image_data(image_data))}
                 ELSE {})

QueryRecipes ==
    {<<None, None>>,
     <<Some(StrMaiTai), None>>,
     <<Some(<<>>), Some(<<IngRum, IngLime>>)>>,
     <<Some(StrMojito), Some(<<>>)>>,
     <<Some(StrMaiTai), Some(<<IngRum, IngLime>>)>>,
     <<Some(StrMaiTai), Some(<<IngLime, IngRum>>)>>}

QueryFingerprints ==
    {compute_recipe_fingerprint(RecMaiTai.name, RecMaiTai.ingredients),
     compute_recipe_fingerprint(RecMojito.name, RecMojito.ingredients)}

Thresholds == {3, PHASH_SIMILARITY_THRESHOLD, HashBits}

ExcludeChoices(db) == {None, Some("")} \cup {Some(r.id) : r \in Rows(db)}

NoEdit == [kind |-> "none"]

NoRequest == [kind |-> "none"]

NoResponse == [status |-> 0]

NoCacheOp == [kind |-> "none", seen |-> 0, repeats |-> 0]

\* the threads of the worker pool that run the synchronous handlers
Threads == {"t1", "t2"}

\* a thread that is in no call of compute_perceptual_hash
Idle == [pc |-> "idle"]

\* no upload made and no perceptual hash computed yet
Untouched ==
    /\ jobs = <<>>
    /\ upload_dir = <<>>
    /\ request = NoRequest
    /\ response = NoResponse
    /\ recipe_ingredients = {}
    /\ extractions = [t \in Threads |-> Idle]
    /\ extracted = {}
    /\ cache = <<>>
    /\ recency = <<>>
    /\ cache_op = NoCacheOp
    /\ threads = [t \in Threads |-> Idle]

Init ==
    /\ store = <<>>
    /\ call = NoCall
    /\ result = NoResult
    /\ fp_input = <<>>
    /\ fp_first = <<>>
    /\ fp_last = <<>>
    /\ fp_edit = NoEdit
    /\ Untouched

\* a recipe is created: db.add(recipe) with a fresh uuid
AddRecipe ==
    /\ call = NoCall
    /\ Len(store) < MaxRecipes
    /\ \E kind \in RecipeKinds :
          store' = Append(store, NewRecipe(RecipeIds[Len(store) + 1], kind))
    /\ UNCHANGED <<call, result, fpVars, uploadVars, cacheVars>>

\* the caller is done with the result of its call
Return ==
    /\ call # NoCall
    /\ call' = NoCall
    /\ result' = NoResult
    /\ UNCHANGED <<store, fpVars, uploadVars, cacheVars>>

CallCheckForDuplicates ==
    /\ call = NoCall
    /\ \E image_data \in QueryImages \cup NotImages, q \in QueryRecipes,
          exclude_recipe_id \in ExcludeChoices(store) :
        \E precomputed_hashes \in PrecomputedChoices(image_data) :
        \E run \in check_for_duplicates(store, image_data, q[1], q[2],
                                        exclude_recipe_id, precomputed_hashes) :
          /\ call' = [kind |-> IF run.raised THEN "check_for_duplicates_raised"
                                ELSE "check_for_duplicates",
                      image_data |-> image_data,
                      recipe_name |-> q[1], ingredients |-> q[2],
                      exclude_recipe_id |-> exclude_recipe_id,
                      precomputed_hashes |-> precomputed_hashes,
                      found |-> run.found]
          /\ result' = run.returned
    /\ store' = AfterQueries(store)
    /\ UNCHANGED <<fpVars, uploadVars, cacheVars>>

CallCheckExactDuplicate ==
    /\ call = NoCall
    /\ \E image_data \in QueryImages, exclude_recipe_id \in ExcludeChoices(store) :
        \E match \in check_exact_duplicate(store, compute_content_hash(image_data),
                                           exclude_recipe_id) :
          /\ call' = [kind |-> "check_exact_duplicate",
                      content_hash |-> compute_content_hash(image_data),
                      exclude_recipe_id |-> exclude_recipe_id,
                      found |-> OptionalToList(match)]
          /\ result' = [matches |-> OptionalToList(match)]
    /\ store' = AfterQueries(store)
    /\ UNCHANGED <<fpVars, uploadVars, cacheVars>>

CallCheckSimilarImages ==
    /\ call = NoCall
    /\ \E image_data \in QueryImages, threshold \in Thresholds,
          exclude_recipe_id \in ExcludeChoices(store), max_matches \in 0..MaxMatchesArg :
        \E matches \in check_similar_images(store, PHashOfImage(image_data), threshold,
                                            exclude_recipe_id, max_matches) :
          /\ call' = [kind |-> "check_similar_images",
                      perceptual_hash |-> PHashOfImage(image_data),
                      threshold |-> threshold,
                      exclude_recipe_id |-> exclude_recipe_id,
                      max_matches |-> max_matches,
                      found |-> matches]
          /\ result' = [matches |-> matches]
    /\ store' = AfterQueries(store)
    /\ UNCHANGED <<fpVars, uploadVars, cacheVars>>

CallCheckRecipeFingerprint ==
    /\ call = NoCall
    /\ \E fingerprint \in QueryFingerprints, exclude_recipe_id \in ExcludeChoices(store) :
        \E match \in check_recipe_fingerprint(store, fingerprint, exclude_recipe_id) :
          /\ call' = [kind |-> "check_recipe_fingerprint",
                      fingerprint |-> fingerprint,
                      exclude_recipe_id |-> exclude_recipe_id,
                      found |-> OptionalToList(match)]
          /\ result' = [matches |-> OptionalToList(match)]
    /\ store' = AfterQueries(store)
    /\ UNCHANGED <<fpVars, uploadVars, cacheVars>>

Next ==
    \/ AddRecipe
    \/ Return
    \/ CallCheckForDuplicates
    \/ CallCheckExactDuplicate
    \/ CallCheckSimilarImages
    \/ CallCheckRecipeFingerprint

Spec == Init /\ [][Next]_vars

----------------------------------------------------------------------------
(* upload_image (backend/app/routers/upload.py).  An uploaded file is its   *)
(* filename suffix and its bytes; broken_png starts with the PNG signature  *)
(* and is no image PIL can open.                                            *)

MaxUploads == 2

ALLOWED_EXTENSIONS == {".jpg", ".jpeg", ".png", ".gif", ".webp"}

ALLOWED_MIME_TYPES ==
    {"image/jpeg", "image/png", "image/gif", "image/webp", "image/heic", "image/heif"}

MAX_FILE_SIZE == 20 * 1024 * 1024

UploadContents == {"img_a", "img_b", "broken_png", "not_an_image", "tiny_png"}

UploadFiles == [suffix : {".png", ".txt"}, content : UploadContents]

\* len(file_content)
ContentLength(content) == IF content = "tiny_png" THEN 67 ELSE 4096

\* filetype.guess(file_content): the type the leading bytes announce
GuessMime(content) == IF content = "not_an_image" THEN None ELSE Some("image/png")

\* validate_image_content returns without raising
ValidImageContent(content) ==
    /\ ContentLength(content) <= MAX_FILE_SIZE
    /\ ContentLength(content) >= 100
    /\ GuessMime(content) # None
    /\ GuessMime(content)[1] \in ALLOWED_MIME_TYPES

_convert_duplicate_result(dup_result) ==
    IF ~dup_result.is_duplicate THEN None
    ELSE Some([is_duplicate |-> dup_result.is_duplicate, matches |-> dup_result.matches])

JobIds == <<"j1", "j2", "j3", "j4">>

FileIds == <<"f1", "f2", "f3", "f4">>

\* ExtractionJob(image_path=str(file_path), status="pending")
ExtractionJob(id, image_path) ==
    [id |-> id, status |-> "pending", image_path |-> image_path,
     recipe_id |-> None, error_message |-> None]

HTTPException(status_code) == [status |-> status_code]

\* the outcomes of the duplicate check of upload_image: the duplicates field of
\* the response, or the exception ImageHashes.from_image_data raised
UploadDuplicateCheck(db, content, check_duplicates) ==
    IF ~check_duplicates THEN {[raised |-> FALSE, duplicates |-> None]}
    ELSE IF ~CanOpen(content) THEN {[raised |-> TRUE, duplicates |-> None]}
    ELSE {[raised |-> FALSE, duplicates |-> _convert_duplicate_result(run.returned)] :
          run \in check_for_duplicates(db, content, None, None, None,
                                       Some(ImageHashes_from_image_data(content)))}

\* POST /api/upload with this file and this check_duplicates
UploadRequest(file, check_duplicates) ==
    /\ call = NoCall
    /\ Len(upload_dir) < MaxUploads
    /\ request' = [kind |-> "upload_image", file |-> file,
                   check_duplicates |-> check_duplicates]
    /\ IF file.suffix \notin ALLOWED_EXTENSIONS \/ ~ValidImageContent(file.content)
       THEN /\ response' = HTTPException(400)
            /\ UNCHANGED <<jobs, upload_dir>>
       ELSE LET file_path == FileIds[Len(upload_dir) + 1] IN
            /\ upload_dir' = Append(upload_dir, [path |-> file_path, content |-> file.content])
            /\ \E check \in UploadDuplicateCheck(store, file.content, check_duplicates) :
                 IF check.raised
                 THEN /\ response' = HTTPException(500)
                      /\ UNCHANGED jobs
                 ELSE LET job == ExtractionJob(JobIds[Len(jobs) + 1], file_path) IN
                      /\ jobs' = Append(jobs, job)
                      /\ response' = [status |-> 200, job |-> job,
                                      duplicates |-> check.duplicates]
    /\ UNCHANGED <<store, call, result, fpVars, cacheVars, recipe_ingredients,
                   extractions, extracted>>

\* POST /api/upload
UploadImage ==
    \E file \in UploadFiles, check_duplicates \in BOOLEAN :
        UploadRequest(file, check_duplicates)

UploadNext == AddRecipe \/ UploadImage

SpecUpload == Init /\ [][UploadNext]_vars

----------------------------------------------------------------------------
(* Extraction of a recipe from an uploaded image: extract_recipe and        *)
(* upload_and_extract (backend/app/routers/upload.py), and the two handlers *)
(* that change a stored recipe, update_recipe (routers/recipes.py) and      *)
(* enhance_recipe_with_images.  A request is served in two steps, before    *)
(* and after the call of the extractor, and requests interleave.            *)

\* what the extractor can read off an image: map_extracted_to_create(extracted)
Extractions ==
    {RecMaiTai, [name |-> StrMojito, ingredients |-> <<IngNameless, IngRum>>]}

\* the files sent to the extraction endpoints
ExtractFiles ==
    {[suffix |-> ".png", content |-> "img_a"],
     [suffix |-> ".png", content |-> "broken_png"],
     [suffix |-> ".txt", content |-> "img_a"]}

\* the bytes of the file saved at image_path
FileContent(image_path) ==
    (CHOOSE f \in Rows(upload_dir) : f.path = image_path).content

\* [(ing.ingredient_name or "", ing.amount, ing.unit) for ing in ...]
ingredient_tuples(recipe_data) == recipe_data.ingredients

\* a recipe stored without its content hash
ExtractedRecipeNoContentHash(id, image_data, recipe_data) ==
    [id |-> id, name |-> recipe_data.name,
     image_content_hash |-> None,
     image_perceptual_hash |-> Some(PHashOfImage(image_data)),
     recipe_fingerprint |->
        Some(compute_recipe_fingerprint(recipe_data.name, recipe_data.ingredients))]

\* Recipe(name=recipe_data.name, ..., image_content_hash=content_hash,
\* image_perceptual_hash=perceptual_hash, recipe_fingerprint=fingerprint)
ExtractedRecipe(id, image_data, recipe_data) ==
    LET hashes == compute_hashes_for_recipe(
                      image_data, recipe_data.name, ingredient_tuples(recipe_data),
                      Some(ImageHashes_from_image_data(image_data)))
    IN  [id |-> id, name |-> recipe_data.name,
         image_content_hash |-> Some(hashes[1]),
         image_perceptual_hash |-> Some(hashes[2]),
         recipe_fingerprint |-> Some(hashes[3])]

\* the RecipeIngredient rows of a recipe: one for each ingredient that has a
\* name (`if ing_data.ingredient_name:`), order=idx
RecipeIngredientRows(recipe_id, ingredients) ==
    {[recipe_id |-> recipe_id, order |-> idx - 1, ingredient |-> ingredients[idx]] :
        idx \in {i \in DOMAIN ingredients : Len(ingredients[i][1]) > 0}}

\* db.query(RecipeIngredient).filter(recipe_id == id).delete(), then the new rows
ReplaceIngredients(table, recipe_id, ingredients) ==
    {row \in table : row.recipe_id # recipe_id}
        \cup RecipeIngredientRows(recipe_id, ingredients)

\* the place of the job in the table
JobIndex(job_id) == CHOOSE j \in DOMAIN jobs : jobs[j].id = job_id

\* a request between `job.status = "processing"; db.commit()` and its answer
Extracting(job_id) == [pc |-> "extracting", job_id |-> job_id]

\* the answer of an extraction endpoint: the status, the recipe returned, and
\* the step that raised
ExtractionResponse(status, recipe_id, failed_at) ==
    [status |-> status, recipe_id |-> recipe_id, failed_at |-> failed_at]

\* POST /api/upload/{job_id}/extract, up to the call of the extractor: 404 for
\* an unknown job, the existing recipe for a completed job, otherwise the job
\* is marked processing
ExtractRecipeBegin ==
    \E t \in Threads :
        /\ extractions[t] = Idle
        /\ \/ /\ request' = [kind |-> "extract_recipe", job_id |-> JobIds[Len(jobs) + 1]]
              /\ response' = ExtractionResponse(404, None, "job")
              /\ UNCHANGED <<jobs, extractions>>
           \/ \E j \in DOMAIN jobs :
                 /\ request' = [kind |-> "extract_recipe", job_id |-> jobs[j].id]
                 /\ IF jobs[j].status = "completed" /\ jobs[j].recipe_id # None
                    THEN /\ response' = ExtractionResponse(200, jobs[j].recipe_id, "")
                         /\ UNCHANGED <<jobs, extractions>>
                    ELSE /\ jobs' = [jobs EXCEPT ![j].status = "processing"]
                         /\ extractions' = [extractions EXCEPT ![t] = Extracting(jobs[j].id)]
                         /\ response' = NoResponse
        /\ UNCHANGED <<store, call, result, fpVars, cacheVars, upload_dir,
                       recipe_ingredients, extracted>>

\* POST /api/upload/extract-immediate, up to the call of the extractor: the
\* file is validated and saved, and a job is created in status processing
UploadAndExtractBegin ==
    \E t \in Threads, file \in ExtractFiles :
        /\ extractions[t] = Idle
        /\ Len(upload_dir) < MaxUploads
        /\ request' = [kind |-> "upload_and_extract", file |-> file]
        /\ IF file.suffix \notin ALLOWED_EXTENSIONS \/ ~ValidImageContent(file.content)
           THEN /\ response' = ExtractionResponse(400, None, "validation")
                /\ UNCHANGED <<jobs, upload_dir, extractions>>
           ELSE LET file_path == FileIds[Len(upload_dir) + 1]
                    job == [ExtractionJob(JobIds[Len(jobs) + 1], file_path)
                                EXCEPT !.status = "processing"]
                IN  /\ upload_dir' = Append(upload_dir,
                                            [path |-> file_path, content |-> file.content])
                    /\ jobs' = Append(jobs, job)
                    /\ extractions' = [extractions EXCEPT ![t] = Extracting(job.id)]
                    /\ response' = NoResponse
        /\ UNCHANGED <<store, call, result, fpVars, cacheVars, recipe_ingredients,
                       extracted>>

\* the steps of the try block that can raise before db.add(recipe): the
\* extractor (any image), ImageHashes.from_image_data (bytes that are no image)
FailingSteps(image_data) ==
    {"extract_from_file"} \cup (IF CanOpen(image_data) THEN {} ELSE {"from_image_data"})

\* the try block raised before db.add(recipe); `except Exception`: the job is
\* marked failed with the message, and committed
ExtractionFails ==
    \E t \in Threads :
        /\ extractions[t].pc = "extracting"
        /\ LET j == JobIndex(extractions[t].job_id) IN
           \E step \in FailingSteps(FileContent(jobs[j].image_path)) :
              /\ jobs' = [jobs EXCEPT ![j].status = "failed",
                                      ![j].error_message = Some(step)]
              /\ request' = [kind |-> "extraction"]
              /\ response' = ExtractionResponse(500, None, step)
        /\ extractions' = [extractions EXCEPT ![t] = Idle]
        /\ UNCHANGED <<store, call, result, fpVars, cacheVars, upload_dir,
                       recipe_ingredients, extracted>>

\* a db.flush() after db.add(recipe) raised (the INSERT of an ingredient that
\* another request has just inserted, a locked database): the session has
\* rolled the transaction back, so the recipe is gone, and the db.commit() of
\* the except block raises in its turn: the job keeps the status it has
ExtractionFailsInFlush ==
    \E t \in Threads :
        /\ extractions[t].pc = "extracting"
        /\ CanOpen(FileContent(jobs[JobIndex(extractions[t].job_id)].image_path))
        /\ request' = [kind |-> "extraction"]
        /\ response' = ExtractionResponse(500, None, "flush")
        /\ extractions' = [extractions EXCEPT ![t] = Idle]
        /\ UNCHANGED <<store, call, result, fpVars, cacheVars, jobs, upload_dir,
                       recipe_ingredients, extracted>>

\* the try block ran to its end: the recipe and its ingredients are stored,
\* the job is completed with the id of the recipe, and all is committed
ExtractionSucceeds ==
    \E t \in Threads, recipe_data \in Extractions :
        /\ extractions[t].pc = "extracting"
        /\ Len(store) < MaxRecipes
        /\ LET j == JobIndex(extractions[t].job_id)
               image_data == FileContent(jobs[j].image_path)
               recipe == ExtractedRecipe(RecipeIds[Len(store) + 1], image_data, recipe_data)
           IN  /\ CanOpen(image_data)
               /\ store' = Append(store, recipe)
               /\ recipe_ingredients' =
                     recipe_ingredients
                        \cup RecipeIngredientRows(recipe.id, recipe_data.ingredients)
               /\ jobs' = [jobs EXCEPT ![j].status = "completed",
                                       ![j].recipe_id = Some(recipe.id)]
               /\ extracted' = extracted \cup {[job_id |-> jobs[j].id, recipe_id |-> recipe.id]}
               /\ request' = [kind |-> "extraction"]
               /\ response' = ExtractionResponse(200, Some(recipe.id), "")
        /\ extractions' = [extractions EXCEPT ![t] = Idle]
        /\ UNCHANGED <<call, result, fpVars, cacheVars, upload_dir>>

\* the bodies of PUT /api/recipes/{recipe_id}: model_dump(exclude_unset=True),
\* a name or none, an ingredient list or none
RecipeUpdates ==
    [name : {None, Some(StrMojito)}, ingredients : {None, Some(<<IngRum, IngLime>>)}]

\* update_recipe: setattr for the fields sent, the ingredients replaced when
\* a list was sent, db.commit()
UpdateRecipe ==
    \E i \in DOMAIN store, recipe_data \in RecipeUpdates :
        /\ store' = [store EXCEPT ![i].name =
                        IF recipe_data.name # None THEN recipe_data.name[1] ELSE @]
        /\ recipe_ingredients' =
              IF recipe_data.ingredients # None
              THEN ReplaceIngredients(recipe_ingredients, store[i].id,
                                      recipe_data.ingredients[1])
              ELSE recipe_ingredients
        /\ request' = [kind |-> "update_recipe"]
        /\ response' = [status |-> 200]
        /\ UNCHANGED <<call, result, fpVars, cacheVars, jobs, upload_dir, extractions,
                       extracted>>

\* enhance_recipe_with_images: the recipe is extracted again from more images;
\* its name and its ingredients are replaced and committed, or the extractor
\* raised and `except Exception: db.rollback()` leaves it as it was
EnhanceRecipeWithImages ==
    \E i \in DOMAIN store :
        /\ request' = [kind |-> "enhance_recipe_with_images"]
        /\ \/ \E recipe_data \in Extractions :
                 /\ store' = [store EXCEPT ![i].name = recipe_data.name]
                 /\ recipe_ingredients' =
                       ReplaceIngredients(recipe_ingredients, store[i].id,
                                          recipe_data.ingredients)
                 /\ response' = [status |-> 200]
           \/ /\ response' = HTTPException(500)
              /\ UNCHANGED <<store, recipe_ingredients>>
        /\ UNCHANGED <<call, result, fpVars, cacheVars, jobs, upload_dir, extractions,
                       extracted>>

\* POST /api/upload with one of the files sent to the extraction endpoints
UploadImageToExtract ==
    \E file \in ExtractFiles, check_duplicates \in BOOLEAN :
        UploadRequest(file, check_duplicates)

ExtractNext ==
    \/ UploadImageToExtract
    \/ ExtractRecipeBegin
    \/ UploadAndExtractBegin
    \/ ExtractionFails
    \/ ExtractionFailsInFlush
    \/ ExtractionSucceeds
    \/ UpdateRecipe
    \/ EnhanceRecipeWithImages

SpecExtract == Init /\ [][ExtractNext]_vars

----------------------------------------------------------------------------
(* The cache of perceptual hashes: functools.lru_cache over                 *)
(* _cached_perceptual_hash(content_hash, image_data)                        *)

MaxRepeats == 2

\* functools._make_key(args, kwds, typed): the positional arguments
_make_key(content_hash, image_data) == <<content_hash, image_data>>

\* a lookup that takes the oldest entry for the one asked for
CachePositionAnyKey(entries, key) == IF entries # <<>> THEN 1 ELSE 0

\* cache_get(key): the place of the entry of this key, 0 if there is none
CachePosition(entries, key) ==
    IF \E i \in DOMAIN entries : entries[i].key = key
    THEN CHOOSE i \in DOMAIN entries : entries[i].key = key
    ELSE 0

\* a hit that leaves the entry where it was
LruTouchInPlace(entries, i) == entries

\* a hit moves the entry to the most recently used end
LruTouch(entries, i) ==
    SubSeq(entries, 1, i - 1) \o SubSeq(entries, i + 1, Len(entries)) \o <<entries[i]>>

\* a miss stores the result, in place of the least recently used entry when
\* the cache is full
LruStore(entries, key, value, maxsize) ==
    (IF Len(entries) >= maxsize THEN Tail(entries) ELSE entries)
        \o <<[key |-> key, result |-> value]>>

\* one call of the wrapper lru_cache puts around a function: the kind of the
\* call, the value returned and the entries afterwards
lru_cache_wrapper(entries, key, computed, maxsize) ==
    LET i == CachePosition(entries, key) IN
    IF i > 0
    THEN [kind |-> "hit", result |-> entries[i].result, cache |-> LruTouch(entries, i)]
    ELSE [kind |-> "miss", result |-> computed,
          cache |-> LruStore(entries, key, computed, maxsize)]

_cached_perceptual_hash(entries, content_hash, image_data) ==
    lru_cache_wrapper(entries, _make_key(content_hash, image_data),
                      PHashOfImage(image_data), _HASH_CACHE_SIZE)

compute_perceptual_hash(entries, image_data) ==
    _cached_perceptual_hash(entries, compute_content_hash(image_data), image_data)

\* _cached_perceptual_hash.cache_clear()
clear_hash_cache(entries) == <<>>

\* image_data moved to the end of the images asked for
AskedLast(asked, image_data) ==
    SelectSeq(asked, LAMBDA b : b # image_data) \o <<image_data>>

\* some caller computes the perceptual hash of image_data
ComputePerceptualHash(image_data, seen, repeats) ==
    LET run == compute_perceptual_hash(cache, image_data) IN
    /\ cache' = run.cache
    /\ recency' = AskedLast(recency, image_data)
    /\ cache_op' = [kind |-> run.kind, image |-> image_data, returned |-> run.result,
                    seen |-> seen, repeats |-> repeats]
    /\ UNCHANGED <<store, call, result, fpVars, uploadVars, threads>>

\* an image never asked for before
ComputeNewImage ==
    /\ cache_op.seen < _HASH_CACHE_SIZE + MaxExtraImages
    /\ ComputePerceptualHash(Frame(cache_op.seen + 1), cache_op.seen + 1, cache_op.repeats)

\* the images asked for again: the least and the most recently used of the
\* cache, and the first image of all
RepeatedImages ==
    {Frame(1)} \cup (IF cache = <<>> THEN {}
                     ELSE {cache[1].key[2], cache[Len(cache)].key[2]})

\* an image asked for before, once the images seen can fill the cache
ComputeSeenImage ==
    /\ cache_op.seen >= _HASH_CACHE_SIZE
    /\ cache_op.repeats < MaxRepeats
    /\ \E image_data \in RepeatedImages :
          ComputePerceptualHash(image_data, cache_op.seen, cache_op.repeats + 1)

ClearHashCache ==
    /\ cache_op.seen >= _HASH_CACHE_SIZE
    /\ cache_op.repeats < MaxRepeats
    /\ cache' = clear_hash_cache(cache)
    /\ recency' = <<>>
    /\ cache_op' = [kind |-> "clear", seen |-> cache_op.seen,
                    repeats |-> cache_op.repeats + 1]
    /\ UNCHANGED <<store, call, result, fpVars, uploadVars, threads>>

CacheNext == ComputeNewImage \/ ComputeSeenImage \/ ClearHashCache

SpecCache == Init /\ [][CacheNext]_vars

----------------------------------------------------------------------------
(* Calls of compute_perceptual_hash running at once.  The wrapper of        *)
(* lru_cache holds its lock while it looks the key up and while it stores   *)
(* the result, and releases it while the wrapped function runs: a call is   *)
(* the lookup, then (on a miss) the computation and the store.              *)

\* the result stored with no second look for the key
StoreAfterCallUnchecked(entries, key, value, maxsize) ==
    LruStore(entries, key, value, maxsize)

\* after the wrapped function has returned: a key that another call stored in
\* the meantime is left as it is, otherwise the result is stored
StoreAfterCall(entries, key, value, maxsize) ==
    IF CachePosition(entries, key) > 0 THEN entries
    ELSE LruStore(entries, key, value, maxsize)

\* the images a call can be for once the images seen can fill the cache: the
\* first image of all, the latest, and the two at the ends of the cache
ThreadImages ==
    {Frame(1), Frame(cache_op.seen)}
        \cup (IF cache = <<>> THEN {} ELSE {cache[1].key[2], cache[Len(cache)].key[2]})

\* thread t enters compute_perceptual_hash(image_data): the key is looked up;
\* a hit returns the stored value, a miss goes on to compute
ThreadLookup(t, image_data, seen, repeats) ==
    LET key == _make_key(compute_content_hash(image_data), image_data)
        i == CachePosition(cache, key)
    IN  /\ threads[t] = Idle
        /\ IF i > 0
           THEN /\ cache' = LruTouch(cache, i)
                /\ threads' = [threads EXCEPT ![t] =
                                  [pc |-> "returned", kind |-> "hit", image |-> image_data,
                                   returned |-> cache[i].result]]
           ELSE /\ cache' = cache
                /\ threads' = [threads EXCEPT ![t] =
                                  [pc |-> "computing", kind |-> "miss", image |-> image_data]]
        /\ cache_op' = [kind |-> "threads", seen |-> seen, repeats |-> repeats]
        /\ UNCHANGED <<store, call, result, fpVars, uploadVars, recency>>

\* the calls made once the cache is full
MaxThreadCalls == 3

\* a call for a new image: the cache is filled by one call after the other,
\* and from then on the calls run at once
ThreadCallsNewImage ==
    \E t \in Threads :
        IF cache_op.seen < _HASH_CACHE_SIZE
        THEN /\ \A u \in Threads : threads[u] = Idle
             /\ ThreadLookup(t, Frame(cache_op.seen + 1), cache_op.seen + 1, 0)
        ELSE /\ cache_op.repeats < MaxThreadCalls
             /\ cache_op.seen < _HASH_CACHE_SIZE + MaxExtraImages
             /\ ThreadLookup(t, Frame(cache_op.seen + 1), cache_op.seen + 1,
                             cache_op.repeats + 1)

\* a call for an image asked for before, while other calls are running
ThreadCallsSeenImage ==
    /\ cache_op.seen >= _HASH_CACHE_SIZE
    /\ cache_op.repeats < MaxThreadCalls
    /\ \E t \in Threads, image_data \in ThreadImages :
          ThreadLookup(t, image_data, cache_op.seen, cache_op.repeats + 1)

\* the wrapped function has returned in thread t: its result is stored
ThreadStores ==
    \E t \in Threads :
        /\ threads[t].pc = "computing"
        /\ LET image_data == threads[t].image
               computed == PHashOfImage(image_data)
           IN  /\ cache' = StoreAfterCall(cache,
                                _make_key(compute_content_hash(image_data), image_data),
                                computed, _HASH_CACHE_SIZE)
               /\ threads' = [threads EXCEPT ![t] =
                                 [pc |-> "returned", kind |-> "miss", image |-> image_data,
                                  returned |-> computed]]
        /\ UNCHANGED <<store, call, result, fpVars, uploadVars, recency, cache_op>>

\* the caller in thread t has its hash
ThreadReturns ==
    \E t \in Threads :
        /\ threads[t].pc = "returned"
        /\ threads' = [threads EXCEPT ![t] = Idle]
        /\ UNCHANGED <<store, call, result, fpVars, uploadVars, cache, recency, cache_op>>

ThreadsNext ==
    \/ ThreadCallsNewImage
    \/ ThreadCallsSeenImage
    \/ ThreadStores
    \/ ThreadReturns

SpecCacheThreads == Init /\ [][ThreadsNext]_vars

----------------------------------------------------------------------------
(* Fingerprint of one recipe under reordering of its ingredient list *)

FpNames == {StrMaiTai, StrMojito}

FpIngredients == {IngRum, IngLime, IngMint, IngRumMl, IngNameless}

FpLists == UNION {[1..n -> FpIngredients] : n \in 0..MaxIngredients}

SwapAt(list, i) ==
    [k \in 1..Len(list) |->
        IF k = i THEN list[i + 1] ELSE IF k = i + 1 THEN list[i] ELSE list[k]]

FpInit ==
    /\ store = <<>>
    /\ call = NoCall
    /\ result = NoResult
    /\ fp_edit = NoEdit
    /\ Untouched
    /\ \E n \in FpNames, l \in FpLists :
          /\ fp_input = [name |-> n, ingredients |-> l, original |-> l]
          /\ fp_first = compute_recipe_fingerprint(n, l)
          /\ fp_last = compute_recipe_fingerprint(n, l)

\* the caller lists the same ingredients in another order and fingerprints again
FingerprintReordered ==
    /\ \E i \in 1..(Len(fp_input.ingredients) - 1) :
          LET l == SwapAt(fp_input.ingredients, i) IN
          /\ fp_input' = [fp_input EXCEPT !.ingredients = l]
          /\ fp_last' = compute_recipe_fingerprint(fp_input.name, l)
    /\ UNCHANGED <<store, call, result, fp_first, fp_edit, uploadVars, cacheVars>>

FpNext == FingerprintReordered

SpecFingerprint == FpInit /\ [][FpNext]_vars

----------------------------------------------------------------------------
(* Fingerprint of one recipe before and after one edit of its data *)

\* str.upper() on ASCII text
Upper(s) == [i \in 1..Len(s) |-> IF s[i] \in 97..122 THEN s[i] - 32 ELSE s[i]]

\* the spellings of s in another case
Recased(s) == {Upper(s), Lower(s)} \ {s}

\* s with one blank or tab before or after it
Padded(s) == {<<c>> \o s : c \in {32, 9}} \cup {s \o <<c>> : c \in {32, 9}}

EditAmounts == {None, Some(0), Some(10), Some(20)}

EditUnits == {None, Some(StrOz), Some(StrMl)}

EditIngredientNames == {StrRum, StrLime, StrMint}

WithIngredient(list, i, ing) == [list EXCEPT ![i] = ing]

InsertAt(list, i, ing) == SubSeq(list, 1, i - 1) \o <<ing>> \o SubSeq(list, i, Len(list))

RemoveAt(list, i) == SubSeq(list, 1, i - 1) \o SubSeq(list, i + 1, Len(list))

\* the caller fingerprints the edited data
Refingerprinted(name, list, edit) ==
    /\ fp_edit = NoEdit
    /\ fp_input' = [fp_input EXCEPT !.name = name, !.ingredients = list]
    /\ fp_last' = compute_recipe_fingerprint(name, list)
    /\ fp_edit' = edit
    /\ UNCHANGED <<store, call, result, fp_first, uploadVars, cacheVars>>

Edit(kind, field, index) == [kind |-> kind, field |-> field, index |-> index]

\* the same recipe name written in another case or with outer whitespace
NameRespelled ==
    \/ \E n \in Recased(fp_input.name) :
          Refingerprinted(n, fp_input.ingredients, Edit("case", "name", 0))
    \/ \E n \in Padded(fp_input.name) :
          Refingerprinted(n, fp_input.ingredients, Edit("whitespace", "name", 0))

\* one ingredient name written in another case or with outer whitespace
IngredientNameRespelled ==
    \E i \in DOMAIN fp_input.ingredients :
        LET ing == fp_input.ingredients[i] IN
        \/ \E n \in Recased(ing[1]) :
              Refingerprinted(fp_input.name,
                  WithIngredient(fp_input.ingredients, i, <<n, ing[2], ing[3]>>),
                  Edit("case", "ingredient_name", i))
        \/ \E n \in Padded(ing[1]) :
              Refingerprinted(fp_input.name,
                  WithIngredient(fp_input.ingredients, i, <<n, ing[2], ing[3]>>),
                  Edit("whitespace", "ingredient_name", i))

\* one unit string written in another case or with outer whitespace
UnitRespelled ==
    \E i \in DOMAIN fp_input.ingredients :
        LET ing == fp_input.ingredients[i] IN
        /\ ing[3] # None
        /\ \/ \E u \in Recased(ing[3][1]) :
                 Refingerprinted(fp_input.name,
                     WithIngredient(fp_input.ingredients, i, <<ing[1], ing[2], Some(u)>>),
                     Edit("case", "unit", i))
           \/ \E u \in Padded(ing[3][1]) :
                 Refingerprinted(fp_input.name,
                     WithIngredient(fp_input.ingredients, i, <<ing[1], ing[2], Some(u)>>),
                     Edit("whitespace", "unit", i))

\* an ingredient without a name is added to the list
NamelessAdded ==
    \E i \in 1..(Len(fp_input.ingredients) + 1), a \in EditAmounts, u \in EditUnits :
        Refingerprinted(fp_input.name,
            InsertAt(fp_input.ingredients, i, <<<<>>, a, u>>),
            Edit("nameless_added", "ingredient", i))

\* an ingredient without a name is taken off the list
NamelessRemoved ==
    \E i \in DOMAIN fp_input.ingredients :
        /\ fp_input.ingredients[i][1] = <<>>
        /\ Refingerprinted(fp_input.name, RemoveAt(fp_input.ingredients, i),
               Edit("nameless_removed", "ingredient", i))

\* one ingredient gets another amount (or none, or its first)
AmountChanged ==
    \E i \in DOMAIN fp_input.ingredients, a \in EditAmounts :
        LET ing == fp_input.ingredients[i] IN
        /\ a # ing[2]
        /\ Refingerprinted(fp_input.name,
               WithIngredient(fp_input.ingredients, i, <<ing[1], a, ing[3]>>),
               Edit("amount", "amount", i))

\* one ingredient gets another unit (or none, or its first)
UnitChanged ==
    \E i \in DOMAIN fp_input.ingredients, u \in EditUnits :
        LET ing == fp_input.ingredients[i] IN
        /\ u # ing[3]
        /\ Refingerprinted(fp_input.name,
               WithIngredient(fp_input.ingredients, i, <<ing[1], ing[2], u>>),
               Edit("unit", "unit", i))

\* one ingredient is replaced by another of the same amount and unit
IngredientRenamed ==
    \E i \in DOMAIN fp_input.ingredients, n \in EditIngredientNames :
        LET ing == fp_input.ingredients[i] IN
        /\ n # ing[1]
        /\ Refingerprinted(fp_input.name,
               WithIngredient(fp_input.ingredients, i, <<n, ing[2], ing[3]>>),
               Edit("ingredient_name", "ingredient_name", i))

FpEditNext ==
    \/ NameRespelled
    \/ IngredientNameRespelled
    \/ UnitRespelled
    \/ NamelessAdded
    \/ NamelessRemoved
    \/ AmountChanged
    \/ UnitChanged
    \/ IngredientRenamed

SpecFingerprintEdits == FpInit /\ [][FpEditNext]_vars

----------------------------------------------------------------------------
\* C10: compute_recipe_fingerprint gives every reordering of an ingredient
\* list the fingerprint it gave the list as first written.
C10_PermutationInvariant == fp_last = fp_first

\* a reordering in which two different components changed places
C10_Witness ==
    /\ Len(fp_input.ingredients) = MaxIngredients
    /\ fp_input.ingredients # fp_input.original
    /\ IngredientComponents(fp_input.ingredients)
           # IngredientComponents(fp_input.original)
    /\ fp_last = fp_first

----------------------------------------------------------------------------
(* Properties of compute_recipe_fingerprint under one edit                 *)
(* (SpecFingerprintEdits)                                                  *)

\* the ingredient the edit was made to, as it was before
EditedIngredient == fp_input.original[fp_edit.index]

\* the string that was respelled, as it was before
RespelledString ==
    CASE fp_edit.field = "name" -> fp_input.name
      [] fp_edit.field = "ingredient_name" -> EditedIngredient[1]
      [] fp_edit.field = "unit" -> EditedIngredient[3][1]

\* C11: writing the recipe name, an ingredient name or a unit string in
\* another letter case, or adding whitespace before or after it, leaves the
\* fingerprint of the recipe unchanged.
C11_CaseWhitespaceInvariant ==
    (fp_edit.kind \in {"case", "whitespace"} /\ Len(Strip(RespelledString)) > 0)
        => fp_last = fp_first

\* C12: giving a named ingredient another amount (none and 0 being two
\* amounts), another unit or another name changes the fingerprint of the
\* recipe.
C12_ChangeChangesFingerprint ==
    (fp_edit.kind \in {"amount", "unit", "ingredient_name"} /\ Len(EditedIngredient[1]) > 0)
        => fp_last # fp_first

\* C13: compute_recipe_fingerprint drops the ingredients whose name is empty:
\* adding or removing one leaves the fingerprint unchanged, and a list with
\* no named ingredient gets the fingerprint of the empty list, which is the
\* hash of the normalized name followed by "|".
C13_EmptyNamesDropped ==
    /\ fp_edit.kind \in {"nameless_added", "nameless_removed"} => fp_last = fp_first
    /\ (fp_input # <<>>
          /\ \A i \in DOMAIN fp_input.ingredients : fp_input.ingredients[i][1] = <<>>)
        => /\ fp_last = compute_recipe_fingerprint(fp_input.name, <<>>)
           /\ fp_last = Md5HexDigest(Strip(Lower(fp_input.name)) \o <<124>>)

\* a nameless ingredient added between two named ones
C13_Witness ==
    /\ fp_edit.kind = "nameless_added"
    /\ fp_edit.index = 2
    /\ Len(fp_input.ingredients) = 3
    /\ fp_input.ingredients[1][1] # <<>>
    /\ fp_input.ingredients[3][1] # <<>>
    /\ fp_input.ingredients[1] # fp_input.ingredients[3]
    /\ fp_last = fp_first

----------------------------------------------------------------------------
(* Properties of the lookups and of check_for_duplicates (Spec) *)

IsCheckForDuplicates == call.kind = "check_for_duplicates"

IsCall == call.kind # "none"

MatchIds(matches) == {matches[i].recipe_id : i \in DOMAIN matches}

RecipeById(recipe_id) == CHOOSE r \in Rows(store) : r.id = recipe_id

\* the recipe is the one the call was told to leave out
IsExcluded(r) == call.exclude_recipe_id # None /\ r.id = call.exclude_recipe_id[1]

\* the perceptual hash the call compares with
QueryPHash ==
    IF IsCheckForDuplicates THEN PHashOfImage(call.image_data) ELSE call.perceptual_hash

\* the Hamming distance between the call's hash and the recipe's
BitDistance(r) == Distance(QueryPHash, r.image_perceptual_hash[1])

\* the recipes a similar_image lookup with this threshold is to report
WithinThreshold(threshold) ==
    {r \in Rows(store) : /\ r.image_perceptual_hash # None
                         /\ ~IsExcluded(r)
                         /\ BitDistance(r) <= threshold}

ConfidencesFound(recipe_id) ==
    {call.found[k].confidence : k \in {k \in DOMAIN call.found :
                                           call.found[k].recipe_id = recipe_id}}

\* C1: the matches check_for_duplicates returns hold one entry for each recipe
\* a lookup found, and that entry is a found one with the highest confidence
\* found for the recipe.
C1_OneEntryPerRecipeAtMax ==
    IsCheckForDuplicates =>
        /\ \A i, j \in DOMAIN result.matches :
              i # j => result.matches[i].recipe_id # result.matches[j].recipe_id
        /\ MatchIds(result.matches) = MatchIds(call.found)
        /\ \A i \in DOMAIN result.matches :
              /\ \E k \in DOMAIN call.found : call.found[k] = result.matches[i]
              /\ \A c \in ConfidencesFound(result.matches[i].recipe_id) :
                    c <= result.matches[i].confidence

\* a recipe found twice, the later time with the higher confidence
C1_Witness ==
    /\ IsCheckForDuplicates
    /\ \E i, k \in DOMAIN call.found :
          /\ i < k
          /\ call.found[i].recipe_id = call.found[k].recipe_id
          /\ call.found[i].confidence < call.found[k].confidence
          /\ \E j \in DOMAIN result.matches : result.matches[j] = call.found[k]

\* C2: the matches check_for_duplicates returns are in order of non-increasing
\* confidence.
C2_SortedByConfidence ==
    IsCheckForDuplicates =>
        \A i \in 1..(Len(result.matches) - 1) :
            result.matches[i].confidence >= result.matches[i + 1].confidence

\* two recipes found in rising order of confidence and returned in falling order
C2_Witness ==
    /\ IsCheckForDuplicates
    /\ Len(call.found) = 2
    /\ call.found[1].confidence < call.found[2].confidence
    /\ Len(result.matches) = 2
    /\ result.matches[1].confidence > result.matches[2].confidence

\* C3: is_duplicate is true exactly when matches is not empty, and a check
\* against an empty store returns is_duplicate = False with no matches.
C3_IsDuplicateIffMatches ==
    IsCheckForDuplicates =>
        /\ result.is_duplicate <=> Len(result.matches) > 0
        /\ store = <<>> => (~result.is_duplicate /\ result.matches = <<>>)

\* a check that found exactly one recipe
C3_Witness ==
    /\ IsCheckForDuplicates
    /\ result.is_duplicate
    /\ Len(result.matches) = 1

\* C4: every match a lookup makes has the confidence of its type: 1.0 for
\* exact_image, 0.95 for same_recipe, 1 - d/64 for similar_image at Hamming
\* distance d, and so a confidence in [0, 1], for any threshold.
C4_ConfidenceByType ==
    IsCall =>
        \A k \in DOMAIN call.found :
            LET m == call.found[k] IN
            /\ m.match_type \in {"exact_image", "similar_image", "same_recipe"}
            /\ m.match_type = "exact_image" => m.confidence = ConfUnit
            /\ m.match_type = "same_recipe" => 100 * m.confidence = 95 * ConfUnit
            /\ m.match_type = "similar_image" =>
                  /\ BitDistance(RecipeById(m.recipe_id)) \in 0..64
                  /\ 64 * m.confidence
                        = (64 - BitDistance(RecipeById(m.recipe_id))) * ConfUnit
            /\ m.confidence >= 0
            /\ m.confidence <= ConfUnit

\* a similar_image match at distance 64, let through by a threshold of 64
C4_Witness ==
    /\ call.kind = "check_similar_images"
    /\ call.threshold > PHASH_SIMILARITY_THRESHOLD
    /\ \E k \in DOMAIN result.matches :
          /\ BitDistance(RecipeById(result.matches[k].recipe_id)) = 64
          /\ result.matches[k].confidence = 0

\* C5: check_similar_images returns min(max_matches, n) of the n recipes that
\* have a perceptual hash, are not excluded and lie within the threshold, each
\* once, highest confidence first; no recipe left out has a higher confidence
\* than one returned; and streaming in batches of any size gives this result.
C5_SimilarTopMatches ==
    call.kind = "check_similar_images" =>
        LET eligible == WithinThreshold(call.threshold)
            returned == result.matches
        IN  /\ \A k \in DOMAIN returned :
                  \E r \in eligible :
                      /\ returned[k].recipe_id = r.id
                      /\ returned[k].recipe_name = r.name
                      /\ returned[k].match_type = "similar_image"
                      /\ 64 * returned[k].confidence = (64 - BitDistance(r)) * ConfUnit
            /\ \A i, j \in DOMAIN returned :
                  i # j => returned[i].recipe_id # returned[j].recipe_id
            /\ Len(returned) = Min(call.max_matches, Cardinality(eligible))
            /\ \A i \in 1..(Len(returned) - 1) :
                  returned[i].confidence >= returned[i + 1].confidence
            /\ \A r \in eligible :
                  r.id \notin MatchIds(returned) =>
                      \A k \in DOMAIN returned :
                          (64 - BitDistance(r)) * ConfUnit <= 64 * returned[k].confidence
            /\ \A batch_size \in 1..MaxBatch :
                  returned \in check_similar_images_streamed(
                                  store, call.perceptual_hash, call.threshold,
                                  call.exclude_recipe_id, call.max_matches, batch_size)

\* more recipes within the threshold than max_matches, the one left out less
\* similar than the one returned
C5_Witness ==
    /\ call.kind = "check_similar_images"
    /\ call.max_matches = 1
    /\ Len(result.matches) = 1
    /\ \E r \in WithinThreshold(call.threshold) :
          /\ r.id \notin MatchIds(result.matches)
          /\ (64 - BitDistance(r)) * ConfUnit < 64 * result.matches[1].confidence

\* C6: no lookup and no check_for_duplicates returns a match for the recipe
\* whose id was passed as exclude_recipe_id.
C6_ExcludedNeverReturned ==
    (IsCall /\ call.exclude_recipe_id # None) =>
        /\ call.exclude_recipe_id[1] \notin MatchIds(result.matches)
        /\ call.exclude_recipe_id[1] \notin MatchIds(call.found)

\* the excluded recipe has the image and the fingerprint the call asks about
C6_Witness ==
    /\ IsCheckForDuplicates
    /\ call.recipe_name # None
    /\ call.ingredients # None
    /\ \E r \in Rows(store) :
          /\ IsExcluded(r)
          /\ r.image_content_hash = Some(compute_content_hash(call.image_data))
          /\ r.image_perceptual_hash = Some(PHashOfImage(call.image_data))
          /\ r.recipe_fingerprint
                = Some(compute_recipe_fingerprint(call.recipe_name[1], call.ingredients[1]))
          /\ r.id \notin MatchIds(result.matches)

\* C7: a recipe is matched only through a signature it has: no exact_image
\* match for a null content hash, no similar_image match for a null perceptual
\* hash, no same_recipe match for a null fingerprint; and check_for_duplicates
\* reports every recipe within the threshold, whichever other fields are null.
C7_NullFieldNeverMatches ==
    IsCall =>
        /\ \A k \in DOMAIN call.found :
              LET m == call.found[k]
                  r == RecipeById(m.recipe_id)
              IN  /\ m.match_type = "exact_image" => r.image_content_hash # None
                  /\ m.match_type = "similar_image" => r.image_perceptual_hash # None
                  /\ m.match_type = "same_recipe" => r.recipe_fingerprint # None
        /\ IsCheckForDuplicates =>
              \A r \in WithinThreshold(PHASH_SIMILARITY_THRESHOLD) :
                  r.id \in MatchIds(result.matches)

\* a recipe with neither content hash nor fingerprint is reported as similar,
\* next to a recipe with no perceptual hash that is not reported
C7_Witness ==
    /\ IsCheckForDuplicates
    /\ \E k \in DOMAIN result.matches :
          /\ result.matches[k].match_type = "similar_image"
          /\ RecipeById(result.matches[k].recipe_id).image_content_hash = None
          /\ RecipeById(result.matches[k].recipe_id).recipe_fingerprint = None
    /\ \E r \in Rows(store) :
          /\ r.image_content_hash = None
          /\ ~IsExcluded(r)
          /\ r.id \notin MatchIds(result.matches)

\* the call passed a recipe name and an ingredient list, neither of them empty
NameAndIngredientsNonEmpty ==
    /\ call.recipe_name # None
    /\ call.ingredients # None
    /\ Len(call.recipe_name[1]) > 0
    /\ Len(call.ingredients[1]) > 0

FoundOfType(match_type) ==
    {k \in DOMAIN call.found : call.found[k].match_type = match_type}

\* the stored recipes, not excluded, with the fingerprint of the call's recipe
SameFingerprint ==
    {r \in Rows(store) :
        /\ ~IsExcluded(r)
        /\ r.recipe_fingerprint
              = Some(compute_recipe_fingerprint(call.recipe_name[1], call.ingredients[1]))}

\* C8: when the exact_image lookup has matched, check_for_duplicates still
\* returns every recipe within the similarity threshold and, given a recipe
\* name and ingredients, a recipe with the same fingerprint.
C8_NoShortCircuit ==
    (IsCheckForDuplicates /\ FoundOfType("exact_image") # {}) =>
        /\ \A r \in WithinThreshold(PHASH_SIMILARITY_THRESHOLD) :
              r.id \in MatchIds(result.matches)
        /\ (NameAndIngredientsNonEmpty /\ SameFingerprint # {})
              => \E r \in SameFingerprint : r.id \in MatchIds(result.matches)

\* an exact match for one recipe and a similar_image match for another
C8_Witness ==
    /\ IsCheckForDuplicates
    /\ \E i, j \in DOMAIN result.matches :
          /\ result.matches[i].match_type = "exact_image"
          /\ result.matches[j].match_type = "similar_image"
          /\ result.matches[i].recipe_id # result.matches[j].recipe_id

\* C9 as claimed: the same_recipe lookup is made whenever a name and an
\* ingredient list are passed, whatever they hold, and never otherwise.
C9_LookupWheneverSupplied ==
    IsCheckForDuplicates =>
        /\ (call.recipe_name # None /\ call.ingredients # None /\ SameFingerprint # {})
              => FoundOfType("same_recipe") # {}
        /\ (call.recipe_name = None \/ call.ingredients = None)
              => FoundOfType("same_recipe") = {}

\* C9 as amended: the same_recipe lookup is made exactly when the name passed
\* is a non-empty string and the ingredient list passed is non-empty.
C9_LookupWhenNonEmpty ==
    IsCheckForDuplicates =>
        /\ (NameAndIngredientsNonEmpty /\ SameFingerprint # {})
              => FoundOfType("same_recipe") # {}
        /\ ~NameAndIngredientsNonEmpty
              => FoundOfType("same_recipe") = {}

\* a name-only recipe is stored, and the call passes its name with an empty
\* ingredient list: no same_recipe match
C9_Witness ==
    /\ IsCheckForDuplicates
    /\ call.recipe_name # None
    /\ call.ingredients = Some(<<>>)
    /\ SameFingerprint # {}
    /\ FoundOfType("same_recipe") = {}

\* the orders in which a list can be written
SeqPermutations(list) ==
    {[i \in 1..Len(list) |-> list[p[i]]] : p \in Permutations(1..Len(list))}

\* the stored recipes, not excluded, whose fingerprint is that of the call's
\* name with its ingredients in some order
StoredWithCallFingerprint ==
    {r \in Rows(store) :
        /\ ~IsExcluded(r)
        /\ \E l \in SeqPermutations(call.ingredients[1]) :
              r.recipe_fingerprint = Some(compute_recipe_fingerprint(call.recipe_name[1], l))}

FoundByImageLookup(recipe_id) ==
    \E k \in DOMAIN call.found :
        /\ call.found[k].recipe_id = recipe_id
        /\ call.found[k].match_type \in {"exact_image", "similar_image"}

\* 0.95 in units of 1/ConfUnit
NinetyFiveHundredths == (95 * ConfUnit) \div 100

\* the result has an entry for a recipe of the call's fingerprint, rated at
\* least 0.95, and same_recipe at 0.95 if no image lookup found that recipe
ReportsFingerprintMatch ==
    \E i \in DOMAIN result.matches :
        LET m == result.matches[i] IN
        /\ RecipeById(m.recipe_id) \in StoredWithCallFingerprint
        /\ m.confidence >= NinetyFiveHundredths
        /\ ~FoundByImageLookup(m.recipe_id)
              => m.match_type = "same_recipe" /\ m.confidence = NinetyFiveHundredths

\* C14 as stated: whenever a stored recipe that is not excluded has the
\* fingerprint of the name and ingredients passed to check_for_duplicates (in
\* any order), the result reports a recipe of that fingerprint with confidence
\* at least 0.95, as same_recipe at exactly 0.95 if no image lookup found it.
C14_FingerprintMatchReported ==
    (/\ IsCheckForDuplicates
     /\ call.recipe_name # None
     /\ call.ingredients # None
     /\ StoredWithCallFingerprint # {}) => ReportsFingerprintMatch

\* C14 amended: the same, for a call whose recipe name and ingredient list
\* are both non-empty.
C14_FingerprintMatchReportedNonEmpty ==
    (/\ IsCheckForDuplicates
     /\ NameAndIngredientsNonEmpty
     /\ StoredWithCallFingerprint # {}) => ReportsFingerprintMatch

\* the ingredients passed in the reverse of the stored order, and the recipe
\* reported as same_recipe although an image lookup found another recipe
C14_Witness ==
    /\ IsCheckForDuplicates
    /\ call.ingredients = Some(<<IngLime, IngRum>>)
    /\ \E i \in DOMAIN result.matches :
          /\ result.matches[i].match_type = "same_recipe"
          /\ result.matches[i].confidence = NinetyFiveHundredths
          /\ RecipeById(result.matches[i].recipe_id) \in StoredWithCallFingerprint
    /\ \E i \in DOMAIN result.matches : result.matches[i].match_type = "exact_image"

\* the stored recipes, not excluded, whose content hash is that of the bytes
\* passed to the call
StoredWithCallContentHash ==
    {r \in Rows(store) :
        /\ ~IsExcluded(r)
        /\ r.image_content_hash = Some(Sha256HexDigest(call.image_data))}

ExactEntries ==
    {i \in DOMAIN result.matches : result.matches[i].match_type = "exact_image"}

\* C15: when some stored recipe that is not excluded has the content hash of
\* the bytes passed to check_for_duplicates, the result holds exactly one
\* exact_image match, of confidence 1.0 and for such a recipe, however many
\* recipes share the hash; when none has it, the result holds no exact_image
\* match.
C15_OneExactMatch ==
    IsCheckForDuplicates =>
        IF StoredWithCallContentHash # {}
        THEN /\ Cardinality(ExactEntries) = 1
             /\ \A i \in ExactEntries :
                   /\ result.matches[i].confidence = ConfUnit
                   /\ RecipeById(result.matches[i].recipe_id) \in StoredWithCallContentHash
        ELSE ExactEntries = {}

\* two stored recipes share the content hash, and the one reported was also
\* found as a similar image at distance 0
C15_Witness ==
    /\ IsCheckForDuplicates
    /\ Cardinality(StoredWithCallContentHash) = 2
    /\ Cardinality(ExactEntries) = 1
    /\ \E i \in ExactEntries, k \in DOMAIN call.found :
          /\ call.found[k].match_type = "similar_image"
          /\ call.found[k].recipe_id = result.matches[i].recipe_id
          /\ call.found[k].confidence = ConfUnit

\* C16: a call of check_for_duplicates, check_exact_duplicate,
\* check_similar_images or check_recipe_fingerprint leaves the recipes table as
\* it was, whether the call returns a result or raises.
C16_LookupsLeaveStore == [][(call = NoCall /\ call' # NoCall) => store' = store]_vars

\* check_for_duplicates raised on bytes that are no image, with recipes stored
C16_Witness ==
    /\ call.kind = "check_for_duplicates_raised"
    /\ call.image_data \in NotImages
    /\ Len(store) > 0
    /\ result = NoResult

----------------------------------------------------------------------------
(* Properties of upload_image (SpecUpload) *)

\* a step of upload_image whose file passed validation and was saved
AcceptedUpload == upload_dir' # upload_dir

\* some stored recipe has the content hash of the uploaded bytes or a
\* perceptual hash within the default threshold of theirs
DuplicateStored(content) ==
    \E r \in Rows(store) :
        \/ r.image_content_hash = Some(Sha256HexDigest(content))
        \/ /\ r.image_perceptual_hash # None
           /\ Distance(PHashOfImage(content), r.image_perceptual_hash[1]) <= 10

\* the step made one job, in status pending, and answered 200 with it
OneJobPending ==
    /\ response'.status = 200
    /\ Len(jobs') = Len(jobs) + 1
    /\ SubSeq(jobs', 1, Len(jobs)) = jobs
    /\ jobs'[Len(jobs')].status = "pending"
    /\ response'.job = jobs'[Len(jobs')]

\* the duplicates field is null exactly when the check was skipped or no
\* stored recipe duplicates the upload
DuplicatesFieldTellsFound ==
    response'.duplicates = None
        <=> (~request'.check_duplicates \/ ~DuplicateStored(request'.file.content))

\* C17: an upload_image request that passes validation, made with
\* check_duplicates enabled, creates exactly one extraction job in status
\* pending and answers 200 whether or not duplicates exist; the duplicates
\* field of an answer is null exactly when the check was skipped or no stored
\* recipe duplicates the upload.
C17_UploadNeverBlocked ==
    [][AcceptedUpload =>
          /\ request'.check_duplicates => OneJobPending
          /\ response'.status = 200 => DuplicatesFieldTellsFound]_vars

----------------------------------------------------------------------------
(* Properties of the cache of perceptual hashes (SpecCache) *)

IsCompute == cache_op.kind \in {"hit", "miss"}

\* C18: whatever calls and clearings came before, compute_perceptual_hash
\* returns for an image the perceptual hash computed from its bytes, which is
\* the one ImageHashes.from_image_data gives for them.
C18_CacheTransparent ==
    IsCompute =>
        /\ cache_op.returned = PHashOfImage(cache_op.image)
        /\ cache_op.returned = ImageHashes_from_image_data(cache_op.image).perceptual_hash

\* a hit in a full cache from which entries have been evicted
C18_Witness ==
    /\ cache_op.kind = "hit"
    /\ cache_op.seen > 128
    /\ Len(cache) = 128
    /\ cache_op.returned = PHashOfImage(cache_op.image)

CachedImages(entries) == {entries[i].key[2] : i \in DOMAIN entries}

\* of the images in the cache, the one whose latest call is the oldest
LeastRecentlyAsked ==
    Head(SelectSeq(recency, LAMBDA b : b \in CachedImages(cache)))

\* C19: the cache never holds more than 128 entries; a call for an image not
\* in a full cache leaves the cache full, with the new image in place of the
\* image least recently asked for and every other entry kept; clear_hash_cache
\* leaves the cache empty.
C19_BoundedLru ==
    /\ [](Len(cache) <= 128)
    /\ [][(cache_op' # cache_op /\ cache_op'.kind = "miss" /\ Len(cache) = 128)
            => /\ Len(cache') = 128
               /\ CachedImages(cache')
                     = (CachedImages(cache) \ {LeastRecentlyAsked}) \cup {cache_op'.image}]_vars
    /\ [][(cache_op' # cache_op /\ cache_op'.kind = "clear") => cache' = <<>>]_vars

\* the first image was asked for again when the cache was full, and the next
\* new image took the place of the second
C19_Witness ==
    /\ cache_op.kind = "miss"
    /\ Len(cache) = 128
    /\ Frame(1) \in CachedImages(cache)
    /\ Frame(2) \notin CachedImages(cache)
    /\ cache_op.image \in CachedImages(cache)

\* C20: every key of the cache is the content hash of an image and nothing
\* else: no key holds the bytes of the image.
C20_KeyIsContentHashOnly ==
    \A i \in DOMAIN cache :
        cache[i].key \in {<<Sha256HexDigest(Frame(n))>> : n \in FrameNumbers}

----------------------------------------------------------------------------
(* Properties of concurrent calls of compute_perceptual_hash                *)
(* (SpecCacheThreads)                                                       *)

\* the entries as a set
CacheEntries(entries) == {entries[i] : i \in DOMAIN entries}

\* no two of the entries are for the same key
OneEntryPerKey(S) == Cardinality({e.key : e \in S}) = Cardinality(S)

\* C21: however the calls of compute_perceptual_hash running at once are
\* interleaved, the cache holds at most 128 entries and at most one for a key,
\* the value stored for a key is never replaced by a different one, and every
\* call returns the perceptual hash of the image it was called with.
C21_ConcurrentCallsSafe ==
    /\ [](/\ Len(cache) <= 128
          /\ Cardinality(CacheEntries(cache)) = Len(cache)
          /\ OneEntryPerKey(CacheEntries(cache))
          /\ \A t \in Threads :
                threads[t].pc = "returned"
                    => threads[t].returned
                          = ImageHashes_from_image_data(threads[t].image).perceptual_hash)
    /\ [][OneEntryPerKey(CacheEntries(cache) \cup CacheEntries(cache'))]_vars

\* two calls for the same new image missed a full cache at once, and both have
\* returned its hash
C21_Witness ==
    /\ Len(cache) = 128
    /\ cache_op.seen > 128
    /\ threads["t1"].pc = "returned" /\ threads["t1"].kind = "miss"
    /\ threads["t2"].pc = "returned" /\ threads["t2"].kind = "miss"
    /\ threads["t1"].image = threads["t2"].image

----------------------------------------------------------------------------
(* Memory held by the similar_image lookup (Spec) *)

\* C22: whatever the batch size and however many stored recipes are within
\* the threshold, the loop of check_similar_images never holds more stored
\* signatures than one batch, nor more candidate matches than
\* batch_size + max_matches (the matches to return and those of one batch).
C22_MemoryBoundedByBatch ==
    call.kind = "check_similar_images" =>
        \A batch_size \in 1..MaxBatch :
            \A run \in SimilarImagesHeld(store, call.perceptual_hash, call.threshold,
                                          call.exclude_recipe_id, batch_size) :
                \A held \in run :
                    /\ held.signatures <= batch_size
                    /\ held.matches <= batch_size + call.max_matches

----------------------------------------------------------------------------
(* Bytes that are no image (Spec) *)

\* C23: a call of check_for_duplicates with bytes that cannot be decoded and
\* no precomputed hashes ends with the error: it returns no result, has made
\* no lookup, and leaves the cache and the store as they were; every other
\* call returns a result.
C23_DecodeErrorPropagates ==
    [][(call = NoCall /\ call'.kind \in {"check_for_duplicates", "check_for_duplicates_raised"})
        => IF call'.precomputed_hashes = None /\ call'.image_data \in NotImages
           THEN /\ call'.kind = "check_for_duplicates_raised"
                /\ result' = NoResult
                /\ call'.found = <<>>
                /\ cache' = cache
                /\ store' = store
           ELSE /\ call'.kind = "check_for_duplicates"
                /\ result'.is_duplicate = (Len(result'.matches) > 0)]_vars

\* the call failed although a stored recipe has the fingerprint of the recipe
\* passed with the bytes
C23_Witness ==
    /\ call.kind = "check_for_duplicates_raised"
    /\ call.image_data \in NotImages
    /\ NameAndIngredientsNonEmpty
    /\ SameFingerprint # {}
    /\ result = NoResult

----------------------------------------------------------------------------
(* Hashes passed in by the caller (Spec) *)

\* the results check_for_duplicates can return for the arguments of the call
\* when it is passed these hashes
ResultsWith(precomputed_hashes) ==
    {run.returned :
        run \in check_for_duplicates(store, call.image_data, call.recipe_name,
                                     call.ingredients, call.exclude_recipe_id,
                                     precomputed_hashes)}

\* C24: for bytes that can be decoded, check_for_duplicates returns with the
\* hashes of the bytes passed in what it returns with none passed in (the
\* result of the call is one it can return either way, and the results it can
\* return are the same), and compute_hashes_for_recipe returns the same triple
\* either way.
C24_PrecomputedIsOptimisation ==
    (IsCheckForDuplicates /\ call.image_data \in QueryImages) =>
        LET passed == Some(ImageHashes_from_image_data(call.image_data)) IN
        /\ result \in ResultsWith(passed)
        /\ result \in ResultsWith(None)
        /\ ResultsWith(passed) = ResultsWith(None)
        /\ \A q \in QueryRecipes :
              (q[1] # None /\ q[2] # None) =>
                  /\ compute_hashes_for_recipe(call.image_data, q[1][1], q[2][1], passed)
                        = compute_hashes_for_recipe(call.image_data, q[1][1], q[2][1], None)
                  /\ compute_hashes_for_recipe(call.image_data, q[1][1], q[2][1], None)
                        = <<Sha256HexDigest(call.image_data), PHashOfImage(call.image_data),
                            compute_recipe_fingerprint(q[1][1], q[2][1])>>

\* a call that was passed the hashes and found the stored recipe with the
\* content hash of the bytes, and another recipe besides
C24_Witness ==
    /\ IsCheckForDuplicates
    /\ call.precomputed_hashes # None
    /\ ExactEntries # {}
    /\ Len(result.matches) >= 2

----------------------------------------------------------------------------
(* best_match (Spec) *)

\* C25: best_match of the result of check_for_duplicates is None exactly when
\* the result has no match; otherwise it is the first match of the result and
\* no match has a higher confidence; and when the exact_image lookup found a
\* recipe, best_match is an exact_image match.
C25_BestMatchIsFirst ==
    IsCheckForDuplicates =>
        /\ best_match(result) = None <=> result.matches = <<>>
        /\ result.matches # <<>> =>
              /\ best_match(result) = Some(result.matches[1])
              /\ \A k \in DOMAIN result.matches :
                    result.matches[k].confidence <= best_match(result)[1].confidence
        /\ FoundOfType("exact_image") # {} =>
              /\ best_match(result) # None
              /\ best_match(result)[1].match_type = "exact_image"
              /\ best_match(result)[1].confidence = ExactConfidence

\* the exact_image lookup found a recipe, and another recipe has a
\* similar_image match of confidence 1.0
C25_Witness ==
    /\ IsCheckForDuplicates
    /\ FoundOfType("exact_image") # {}
    /\ \E k \in DOMAIN result.matches :
          /\ result.matches[k].match_type = "similar_image"
          /\ result.matches[k].confidence = ExactConfidence
          /\ result.matches[k].recipe_id # result.matches[1].recipe_id
    /\ best_match(result)[1].match_type = "exact_image"

----------------------------------------------------------------------------
(* Determinism of the matching (Spec) *)

\* C26: a second call of check_for_duplicates with the arguments of the call
\* made, against the same store, returns the result the call returned: the
\* same recipes, match types and confidences in the same order.
C26_MatchingDeterministic ==
    IsCheckForDuplicates =>
        \A again \in check_for_duplicates(store, call.image_data, call.recipe_name,
                                          call.ingredients, call.exclude_recipe_id,
                                          call.precomputed_hashes) :
            again.returned = result

----------------------------------------------------------------------------
(* Properties of the extraction endpoints (SpecExtract) *)

\* the bytes from which an extraction, of a job now in the table, created a
\* recipe that is in the store
ExtractedFrom ==
    {FileContent(jobs[j].image_path) :
        j \in {k \in DOMAIN jobs :
                 \E e \in extracted :
                     /\ e.job_id = jobs[k].id
                     /\ \E r \in Rows(store) : r.id = e.recipe_id}}

\* a step of upload_image, with duplicate checking enabled, for a file of an
\* allowed type whose bytes are those of an earlier extraction
UploadOfExtractedBytes ==
    /\ request'.kind = "upload_image"
    /\ request'.check_duplicates
    /\ request'.file.suffix \in ALLOWED_EXTENSIONS
    /\ upload_dir' # upload_dir
    /\ extractions' = extractions
    /\ request'.file.content \in ExtractedFrom

CurrentIngredients(recipe_id) ==
    LET rows == {row \in recipe_ingredients : row.recipe_id = recipe_id}
        listed == CHOOSE l \in [1..Cardinality(rows) -> rows] :
                      \A i, j \in 1..Cardinality(rows) : i < j => l[i].order < l[j].order
    IN  [i \in 1..Cardinality(rows) |-> listed[i].ingredient]

\* C28: every stored recipe that has a fingerprint has the fingerprint of its
\* current name and its current ingredient list.
C28_FingerprintCurrent ==
    \A r \in Rows(store) :
        r.recipe_fingerprint # None =>
            r.recipe_fingerprint
                = Some(compute_recipe_fingerprint(r.name, CurrentIngredients(r.id)))

\* the recipes created for a job
RecipesOfJob(job_id) == {e.recipe_id : e \in {x \in extracted : x.job_id = job_id}}

\* a step of extract_recipe for a job that is completed and has its recipe
ExtractOfCompletedJob(j) ==
    /\ request'.kind = "extract_recipe"
    /\ request'.job_id = jobs[j].id
    /\ jobs[j].status = "completed"
    /\ jobs[j].recipe_id # None

\* C29: however the extract_recipe requests for a job follow one another or
\* interleave, at most one recipe is created for the job; and a request for a
\* job that is completed and has its recipe returns that recipe and changes
\* neither the store nor the job.
C29_OneRecipePerJob ==
    /\ [](\A j \in DOMAIN jobs : Cardinality(RecipesOfJob(jobs[j].id)) <= 1)
    /\ [][\A j \in DOMAIN jobs :
            ExtractOfCompletedJob(j) =>
                /\ response'.status = 200
                /\ response'.recipe_id = jobs[j].recipe_id
                /\ store' = store
                /\ recipe_ingredients' = recipe_ingredients
                /\ jobs' = jobs]_vars

\* a step in which the request served by thread t, whose job had been marked
\* processing, ends with an error
FailedAttempt(t) ==
    /\ extractions[t].pc = "extracting"
    /\ extractions'[t] = Idle
    /\ response'.status = 500

\* C30: when a request of extract_recipe or upload_and_extract fails after its
\* job was marked processing, the job is left in status failed with an error
\* message and no recipe_id, and the store holds no Recipe and no
\* RecipeIngredient row that it did not hold before.
C30_FailedAttemptLeavesNoRecipe ==
    [][\A t \in Threads :
        FailedAttempt(t) =>
            LET j == JobIndex(extractions[t].job_id) IN
            /\ jobs'[j].status = "failed"
            /\ jobs'[j].error_message # None
            /\ jobs'[j].recipe_id = None
            /\ store' = store
            /\ recipe_ingredients' = recipe_ingredients]_vars

====
